---- MODULE Spec2Model ----
(***************************************************************************)
(* A model of sudoku.c, a command-line Sudoku solver: the candidate arrays *)
(* of the rows, columns and squares, the board, the loader read_board, the *)
(* recursive backtracking search solve_board, and main.                    *)
(*                                                                         *)
(* The C arrays have ARRAY_SIZE = 10 slots and use indices 1..9 only; slot *)
(* 0 is never initialised and never read, so the model's arrays have the   *)
(* domain MIN_NUM..MAX_NUM.  A cell's three candidate pointers are fixed   *)
(* by init_board (rows + i, columns + j, squares + square(i, j)); the      *)
(* model follows them by index.                                            *)
(***************************************************************************)
EXTENDS Integers, Sequences, FiniteSets

\* ------------------------------------------------------------------------
\* Program constants (sudoku.c:12-16).
SUBDIMENSION == 3
MIN_NUM == 1
MAX_NUM == 9
TOTAL_NUMS == 9

Nums == MIN_NUM..MAX_NUM

\* ------------------------------------------------------------------------
\* Characters, as the int values fgetc returns.
EOF_CHAR == -1
CH_DOT == 46
CH_ZERO == 48

\* isdigit(c) of <ctype.h> in the C locale.
isdigit(c) == c >= 48 /\ c <= 57

\* ------------------------------------------------------------------------
\* Bounds of the model.
\* Characters the loader ignores (spaces, newlines, '0', letters) that one
\* input text may hold.
MaxJunk == 1
\* Cells that may be missing at the end of a text that stops early.
MaxMissing == 1
\* The top values (MAX_NUM - FcfFree + 1 .. MAX_NUM) on which the candidate
\* arrays handed to find_common_free on its own are arbitrary.
FcfFree == 3

\* ------------------------------------------------------------------------
\* The input texts.  A text is described by a grid of digits, 0 standing
\* for the dot of an empty cell.
\* The example of read_board's comment.
ExampleGrid ==
    << <<5,3,0, 0,7,0, 0,0,0>>,
       <<6,0,0, 1,9,5, 0,0,0>>,
       <<0,9,8, 0,0,0, 0,6,0>>,
       <<8,0,0, 0,6,0, 0,0,3>>,
       <<4,0,0, 8,0,3, 0,0,1>>,
       <<7,0,0, 0,2,0, 0,0,6>>,
       <<0,6,0, 0,0,0, 2,8,0>>,
       <<0,0,0, 4,1,9, 0,0,5>>,
       <<0,0,0, 0,8,0, 0,7,9>> >>

\* The completed example: a valid grid.
SolvedGrid ==
    << <<5,3,4, 6,7,8, 9,1,2>>,
       <<6,7,2, 1,9,5, 3,4,8>>,
       <<1,9,8, 3,4,2, 5,6,7>>,
       <<8,5,9, 7,6,1, 4,2,3>>,
       <<4,2,6, 8,5,3, 7,9,1>>,
       <<7,1,3, 9,2,4, 8,5,6>>,
       <<9,6,1, 5,3,7, 2,8,4>>,
       <<2,8,7, 4,1,9, 6,3,5>>,
       <<3,4,5, 2,8,6, 1,7,9>> >>

EmptyGrid == [i \in Nums |-> [j \in Nums |-> 0]]

Files == {"solved", "empty", "example"}

GridOf(f) ==
    CASE f = "solved" -> SolvedGrid
      [] f = "empty" -> EmptyGrid
      [] f = "example" -> ExampleGrid

\* In the "solved" text five cells are free: each holds a dot or one of
\* FreeDigits.  In SolvedGrid they hold 9 . . 5 . . . . 4 in row 7 and
\* . . . 4 . . . . 5 in row 8: blanking the last four leaves two completions
\* (5 4 / 4 5 and 4 5 / 5 4).
FreeCells == { <<7, 1>>, <<7, 4>>, <<7, 9>>, <<8, 4>>, <<8, 9>> }
FreeDigits == {4, 5, 9}
JunkChars == {10, 32, CH_ZERO, 65}

CharOf(d) == IF d = 0 THEN CH_DOT ELSE CH_ZERO + d

\* ------------------------------------------------------------------------
\* CANDIDATES.

init_candidates == [i \in Nums |-> 0]

use_candidate(cp, num) == [cp EXCEPT ![num] = 1]

restore_candidate(cp, num) == [cp EXCEPT ![num] = 0]

\* ------------------------------------------------------------------------
\* CELLS AND BOARDS.

square(row, col) ==
    (((row - 1) \div SUBDIMENSION) * SUBDIMENSION) +
        ((col - 1) \div SUBDIMENSION) + 1

init_board ==
    [ unset_cells |-> TOTAL_NUMS * TOTAL_NUMS,
      cells |-> [i \in Nums |-> [j \in Nums |-> [has_value |-> 0, value |-> 0]]],
      rows |-> [i \in Nums |-> init_candidates],
      columns |-> [i \in Nums |-> init_candidates],
      squares |-> [i \in Nums |-> init_candidates] ]

\* The three candidate arrays a cell points to.
row_candidates(b, r, c) == b.rows[r]
col_candidates(b, r, c) == b.columns[c]
square_candidates(b, r, c) == b.squares[square(r, c)]

\* find_common_free scanning from MAX_NUM down: the highest free value.
find_common_free_d(r, c, s, atleast) ==
    LET free == { v \in atleast..MAX_NUM : r[v] = 0 /\ c[v] = 0 /\ s[v] = 0 }
    IN  IF free = {} THEN -1 ELSE CHOOSE v \in free : \A w \in free : w <= v

\* find_common_free with the loop bound written i < MAX_NUM.
RECURSIVE find_common_free_m(_, _, _, _)
find_common_free_m(r, c, s, atleast) ==
    IF atleast >= MAX_NUM THEN -1
    ELSE IF r[atleast] = 0 /\ c[atleast] = 0 /\ s[atleast] = 0 THEN atleast
    ELSE find_common_free_m(r, c, s, atleast + 1)

\* find_common_free that scans from MIN_NUM whatever atleast is.
find_common_free_0(r, c, s, atleast) ==
    LET free == { v \in Nums : r[v] = 0 /\ c[v] = 0 /\ s[v] = 0 }
    IN  IF free = {} THEN -1 ELSE CHOOSE v \in free : \A w \in free : v <= w

\* find_common_free that does not look at the square's array.
RECURSIVE find_common_free_s(_, _, _, _)
find_common_free_s(r, c, s, atleast) ==
    IF atleast > MAX_NUM THEN -1
    ELSE IF r[atleast] = 0 /\ c[atleast] = 0 THEN atleast
    ELSE find_common_free_s(r, c, s, atleast + 1)

RECURSIVE find_common_free(_, _, _, _)
find_common_free(r, c, s, atleast) ==
    IF atleast > MAX_NUM THEN -1
    ELSE IF r[atleast] = 0 /\ c[atleast] = 0 /\ s[atleast] = 0 THEN atleast
    ELSE find_common_free(r, c, s, atleast + 1)

\* The second assert_ of set_cell (the first is about ranges).
set_cell_assert(b, r, c, val) ==
    /\ r \in Nums /\ c \in Nums /\ val \in Nums
    /\ row_candidates(b, r, c)[val] = 0
    /\ col_candidates(b, r, c)[val] = 0
    /\ square_candidates(b, r, c)[val] = 0

\* set_cell without the decrement of unset_cells.
set_cell_n(b, r, c, val) ==
    [b EXCEPT !.cells[r][c] = [has_value |-> 1, value |-> val],
              !.rows[r] = use_candidate(@, val),
              !.columns[c] = use_candidate(@, val),
              !.squares[square(r, c)] = use_candidate(@, val)]

\* set_cell without use_candidate on the row's array.
set_cell_m(b, r, c, val) ==
    [b EXCEPT !.unset_cells = @ - 1,
              !.cells[r][c] = [has_value |-> 1, value |-> val],
              !.columns[c] = use_candidate(@, val),
              !.squares[square(r, c)] = use_candidate(@, val)]

set_cell(b, r, c, val) ==
    [b EXCEPT !.unset_cells = @ - 1,
              !.cells[r][c] = [has_value |-> 1, value |-> val],
              !.rows[r] = use_candidate(@, val),
              !.columns[c] = use_candidate(@, val),
              !.squares[square(r, c)] = use_candidate(@, val)]

unset_cell_assert(b, r, c, val) ==
    /\ r \in Nums /\ c \in Nums /\ val \in Nums
    /\ row_candidates(b, r, c)[val] # 0
    /\ col_candidates(b, r, c)[val] # 0
    /\ square_candidates(b, r, c)[val] # 0

\* unset_cell without the increment of unset_cells.
unset_cell_n(b, r, c, val) ==
    [b EXCEPT !.cells[r][c] = [has_value |-> 0, value |-> 0],
              !.rows[r] = restore_candidate(@, val),
              !.columns[c] = restore_candidate(@, val),
              !.squares[square(r, c)] = restore_candidate(@, val)]

\* unset_cell without restore_candidate on the column's array.
unset_cell_m(b, r, c, val) ==
    [b EXCEPT !.unset_cells = @ + 1,
              !.cells[r][c] = [has_value |-> 0, value |-> 0],
              !.rows[r] = restore_candidate(@, val),
              !.squares[square(r, c)] = restore_candidate(@, val)]

unset_cell(b, r, c, val) ==
    [b EXCEPT !.unset_cells = @ + 1,
              !.cells[r][c] = [has_value |-> 0, value |-> 0],
              !.rows[r] = restore_candidate(@, val),
              !.columns[c] = restore_candidate(@, val),
              !.squares[square(r, c)] = restore_candidate(@, val)]

\* is_set with the flag inverted.
is_set_m(b, r, c) == 1 - b.cells[r][c].has_value

is_set(b, r, c) == b.cells[r][c].has_value

\* following without the final + MIN_NUM.
following_m(num) == (num - MIN_NUM + 1) % TOTAL_NUMS

following(num) == ((num - MIN_NUM + 1) % TOTAL_NUMS) + MIN_NUM

\* next_cell that stops anywhere in the last row or the last column.
next_cell_m(r, c) ==
    IF r = MAX_NUM \/ c = MAX_NUM
    THEN [ret |-> 0, r |-> r, c |-> c]
    ELSE LET c2 == following(c)
         IN  [ret |-> 1, r |-> IF c2 = MIN_NUM THEN following(r) ELSE r, c |-> c2]

\* next_cell(&r, &c): the value returned and r, c as it leaves them.
next_cell(r, c) ==
    IF r = MAX_NUM /\ c = MAX_NUM
    THEN [ret |-> 0, r |-> r, c |-> c]
    ELSE LET c2 == following(c)
         IN  [ret |-> 1, r |-> IF c2 = MIN_NUM THEN following(r) ELSE r, c |-> c2]

\* What print_board writes: the 81 values, row by row.
print_board(b) == [i \in Nums |-> [j \in Nums |-> b.cells[i][j].value]]

\* The loop of solve_board that finds the next unset cell:
\* while (is_set(b, r, c) && next_cell(&r, &c)) ;
RECURSIVE find_unset(_, _, _)
find_unset(b, r, c) ==
    IF is_set(b, r, c) # 0
    THEN LET n == next_cell(r, c)
         IN  IF n.ret # 0 THEN find_unset(b, n.r, n.c) ELSE [r |-> n.r, c |-> n.c]
    ELSE [r |-> r, c |-> c]

\* ------------------------------------------------------------------------
\* The state.
VARIABLES
    ASSERT,     \* whether the build defines ASSERT (assert_ is assert)
    file,       \* the input text main reads
    pc,         \* main: "read", "solve", "exit", or "abort" (a failed assert)
    row, col,   \* read_board's position
    junk,       \* ignored characters read so far
    b,          \* struct board b
    stack,      \* the active solve_board invocations, the innermost last
    ret,        \* the value the last finished solve_board returned (-1: none)
    out,        \* the boards printed so far
    exit_code,  \* main's return value (-1: still running)
    b0,         \* history: the board when the search started
    touched,    \* history: the cells the search has called set_cell or
                \* unset_cell on
    fcf,        \* a call of find_common_free on its own: arguments, result
    nc          \* calls of next_cell on their own: position, result, path

vars == <<ASSERT, file, pc, row, col, junk, b, stack, ret, out, exit_code, b0,
          touched, fcf, nc>>

\* The variables of the calls of find_common_free and next_cell on their own.
pure == <<fcf, nc>>
FcfIdle == [called |-> FALSE]
NcIdle == [calls |-> 0]

Top == stack[Len(stack)]
Pop == SubSeq(stack, 1, Len(stack) - 1)
SetTop(f) == [stack EXCEPT ![Len(stack)] = f]

\* A new invocation solve_board(b, r, c); prev and val are not yet assigned
\* (and not read before they are).
Frame(r, c) == [r |-> r, c |-> c, prev |-> 0, val |-> 0, pc |-> "entry"]

\* main up to init_board(&b).
Init ==
    /\ ASSERT \in BOOLEAN
    /\ file \in Files
    /\ pc = "read"
    /\ row = MIN_NUM
    /\ col = MIN_NUM
    /\ junk = 0
    /\ b = init_board
    /\ stack = << >>
    /\ ret = -1
    /\ out = << >>
    /\ exit_code = -1
    /\ b0 = init_board
    /\ touched = {}
    /\ fcf = FcfIdle
    /\ nc = NcIdle

\* The cells read_board has still to read, the one at (row, col) included.
Remaining == (MAX_NUM - row) * TOTAL_NUMS + (MAX_NUM - col) + 1

\* What fgetc may return at this point of the text: the character of the
\* cell at (row, col), an ignored character while the text has had fewer
\* than MaxJunk, and the end of the file when at most MaxMissing cells are
\* left (the "solved" texts are never cut short: cells unset there are
\* FreeCells).
NextChars ==
    (IF file = "solved" /\ <<row, col>> \in FreeCells
     THEN {CH_DOT} \cup {CharOf(d) : d \in FreeDigits}
     ELSE {CharOf(GridOf(file)[row][col])})
    \cup (IF junk < MaxJunk THEN JunkChars ELSE {})
    \cup (IF file # "solved" /\ Remaining <= MaxMissing THEN {EOF_CHAR} ELSE {})

\* One iteration of read_board's loop; at its end read_board returns (and
\* the count of ignored characters, which bounds the text, is dropped).
\* Built with ASSERT, set_cell aborts when its assert_ fails.
ReadChar ==
    /\ pc = "read"
    /\ \E ch \in NextChars :
        IF (isdigit(ch) /\ ch # CH_ZERO) \/ ch = CH_DOT
        THEN LET val == ch - CH_ZERO
                 fails == ch # CH_DOT /\ ASSERT /\ ~set_cell_assert(b, row, col, val)
                 n == next_cell(row, col)
             IN  /\ b' = IF ch # CH_DOT /\ ~fails THEN set_cell(b, row, col, val) ELSE b
                 /\ pc' = IF fails THEN "abort" ELSE IF n.ret = 0 THEN "solve" ELSE "read"
                 /\ row' = IF fails THEN row ELSE n.r
                 /\ col' = IF fails THEN col ELSE n.c
                 /\ junk' = IF ~fails /\ n.ret = 0 THEN 0 ELSE junk
        ELSE /\ pc' = IF ch = EOF_CHAR THEN "solve" ELSE "read"
             /\ junk' = IF ch = EOF_CHAR THEN 0 ELSE junk + 1
             /\ UNCHANGED <<b, row, col>>
    /\ UNCHANGED pure
    /\ UNCHANGED <<ASSERT, file, stack, ret, out, exit_code, b0, touched>>

\* main: ret = solve_board(&b, MIN_NUM, MIN_NUM), the call.
CallSolve ==
    /\ pc = "solve"
    /\ stack = << >>
    /\ ret = -1
    /\ stack' = << Frame(MIN_NUM, MIN_NUM) >>
    /\ b0' = b
    /\ UNCHANGED pure
    /\ UNCHANGED <<ASSERT, file, pc, row, col, junk, b, ret, out, exit_code, touched>>

\* solve_board from its entry to the first find_common_free: the base case,
\* the search for the next unset cell, the "should never happen" return.
SolveEnter ==
    /\ pc = "solve"
    /\ stack # << >>
    /\ Top.pc = "entry"
    /\ IF b.unset_cells = 0
       THEN /\ out' = Append(out, print_board(b))
            /\ ret' = 1
            /\ stack' = Pop
       ELSE LET p == find_unset(b, Top.r, Top.c)
            IN  IF is_set(b, p.r, p.c) # 0
                THEN /\ ret' = 1
                     /\ stack' = Pop
                     /\ out' = out
                ELSE /\ stack' = SetTop([Top EXCEPT !.r = p.r, !.c = p.c,
                                                    !.prev = MIN_NUM, !.pc = "loop"])
                     /\ UNCHANGED <<ret, out>>
    /\ UNCHANGED pure
    /\ UNCHANGED <<ASSERT, file, pc, row, col, junk, b, exit_code, b0, touched>>

\* One pass of the while (1) loop up to the recursive call, or the break
\* and return 0.
SolveTry ==
    /\ pc = "solve"
    /\ stack # << >>
    /\ Top.pc = "loop"
    /\ LET val == find_common_free(row_candidates(b, Top.r, Top.c),
                                   col_candidates(b, Top.r, Top.c),
                                   square_candidates(b, Top.r, Top.c),
                                   Top.prev)
       IN  IF val = -1
           THEN /\ ret' = 0
                /\ stack' = Pop
                /\ UNCHANGED <<b, pc, touched>>
           ELSE IF ASSERT /\ ~set_cell_assert(b, Top.r, Top.c, val)
           THEN /\ pc' = "abort"
                /\ UNCHANGED <<b, stack, ret, touched>>
           ELSE /\ b' = set_cell(b, Top.r, Top.c, val)
                /\ touched' = touched \cup {<<Top.r, Top.c>>}
                /\ stack' = Append(SetTop([Top EXCEPT !.val = val, !.pc = "call"]),
                                   Frame(Top.r, Top.c))
                /\ ret' = -1
                /\ pc' = pc
    /\ UNCHANGED pure
    /\ UNCHANGED <<ASSERT, file, row, col, junk, out, exit_code, b0>>

\* The recursive call has returned: return 1, or unset the cell and go on
\* with prev = val + 1.
SolveBack ==
    /\ pc = "solve"
    /\ stack # << >>
    /\ Top.pc = "call"
    /\ IF ret # 0
       THEN /\ stack' = Pop
            /\ UNCHANGED <<b, ret, pc, touched>>
       ELSE IF ASSERT /\ ~unset_cell_assert(b, Top.r, Top.c, Top.val)
       THEN /\ pc' = "abort"
            /\ UNCHANGED <<b, stack, ret, touched>>
       ELSE /\ b' = unset_cell(b, Top.r, Top.c, Top.val)
            /\ touched' = touched \cup {<<Top.r, Top.c>>}
            /\ stack' = SetTop([Top EXCEPT !.prev = Top.val + 1, !.pc = "loop"])
            /\ ret' = -1
            /\ pc' = pc
    /\ UNCHANGED pure
    /\ UNCHANGED <<ASSERT, file, row, col, junk, out, exit_code, b0>>

\* main after solve_board has returned: return (ret ? 0 : 3).
Exit ==
    /\ pc = "solve"
    /\ stack = << >>
    /\ ret # -1
    /\ pc' = "exit"
    /\ exit_code' = IF ret # 0 THEN 0 ELSE 3
    /\ UNCHANGED pure
    /\ UNCHANGED <<ASSERT, file, row, col, junk, b, stack, ret, out, b0, touched>>

Next == ReadChar \/ CallSolve \/ SolveEnter \/ SolveTry \/ SolveBack \/ Exit

Spec == Init /\ [][Next]_vars

\* ------------------------------------------------------------------------
\* find_common_free and next_cell on their own.  main does not run.
main_vars == <<ASSERT, file, pc, row, col, junk, b, stack, ret, out, exit_code,
               b0, touched>>

MainIdle ==
    /\ ASSERT = FALSE
    /\ file = "empty"
    /\ pc = "idle"
    /\ row = MIN_NUM
    /\ col = MIN_NUM
    /\ junk = 0
    /\ b = init_board
    /\ stack = << >>
    /\ ret = -1
    /\ out = << >>
    /\ exit_code = -1
    /\ b0 = init_board
    /\ touched = {}

\* The candidate arrays find_common_free is handed: arbitrary on the top
\* FcfFree values, all used or all unused below them.
FcfLow == MIN_NUM..(MAX_NUM - FcfFree)
FcfArrays == { a \in [Nums -> {0, 1}] : \A v, w \in FcfLow : a[v] = a[w] }

InitFcf ==
    /\ MainIdle
    /\ nc = NcIdle
    /\ \E r \in FcfArrays, c \in FcfArrays, s \in FcfArrays, atleast \in 1..10 :
           fcf = [called |-> FALSE, r |-> r, c |-> c, s |-> s, atleast |-> atleast,
                  given |-> <<r, c, s>>, result |-> 0]

\* val = find_common_free(r, c, s, atleast); the function writes to none of
\* the arrays it is handed.
FcfCall ==
    /\ ~fcf.called
    /\ "atleast" \in DOMAIN fcf
    /\ fcf' = [fcf EXCEPT !.called = TRUE,
                          !.result = find_common_free(fcf.r, fcf.c, fcf.s, fcf.atleast)]
    /\ UNCHANGED main_vars
    /\ UNCHANGED nc

SpecFcf == InitFcf /\ [][FcfCall]_vars

InitNc ==
    /\ MainIdle
    /\ fcf = FcfIdle
    /\ \E r \in Nums, c \in Nums :
           nc = [calls |-> 0, r |-> r, c |-> c, ret |-> 1,
                 from |-> <<r, c>>, path |-> << <<r, c>> >>]

\* One more next_cell(&r, &c), as long as the last one returned 1.
NcCall ==
    /\ "ret" \in DOMAIN nc
    /\ nc.ret # 0
    /\ LET n == next_cell(nc.r, nc.c)
       IN  nc' = [calls |-> nc.calls + 1, r |-> n.r, c |-> n.c, ret |-> n.ret,
                  from |-> <<nc.r, nc.c>>,
                  path |-> IF n.ret # 0 THEN Append(nc.path, <<n.r, n.c>>) ELSE nc.path]
    /\ UNCHANGED main_vars
    /\ UNCHANGED fcf

SpecNc == InitNc /\ [][NcCall]_vars

\* The "solved" texts alone: at most five cells are unset when the search
\* starts, so that all the ways to fill them can be enumerated.
InitSmall == Init /\ file = "solved" /\ ~ASSERT

SpecSmall == InitSmall /\ [][Next]_vars

\* The "solved" and the empty texts in the default build: short searches
\* over contradictory and consistent givens, and the deepest search.
InitLight == Init /\ file # "example" /\ ~ASSERT

SpecLight == InitLight /\ [][Next]_vars

\* ------------------------------------------------------------------------
\* Sudoku, stated apart from the program.
Cells == Nums \X Nums

RowUnit(i) == { <<i, j>> : j \in Nums }
ColUnit(j) == { <<i, j>> : i \in Nums }
BlockUnit(k) ==
    { p \in Cells : /\ (p[1] - 1) \div 3 = (k - 1) \div 3
                    /\ (p[2] - 1) \div 3 = (k - 1) % 3 }

\* The 27 units: rows, columns, blocks.
Units ==
    [i \in 1..27 |->
        IF i <= 9 THEN RowUnit(i)
        ELSE IF i <= 18 THEN ColUnit(i - 9)
        ELSE BlockUnit(i - 18)]
Unit(i) == Units[i]

\* The cells a board holds a value in, and the grid of its values.
IsGiven(bd, p) == bd.cells[p[1]][p[2]].has_value = 1
ValueAt(bd, p) == bd.cells[p[1]][p[2]].value
Holes(bd) == { p \in Cells : ~IsGiven(bd, p) }
GridValues(bd) == [i \in Nums |-> [j \in Nums |-> bd.cells[i][j].value]]

\* No value is repeated among the set cells of a row, column or block.
Consistent(bd) ==
    \A i \in 1..27 : \A p, q \in Unit(i) :
        (p # q /\ IsGiven(bd, p) /\ IsGiven(bd, q)) => ValueAt(bd, p) # ValueAt(bd, q)

\* Some row holds a value in two of its set cells.
RowDuplicate(bd) ==
    \E i \in Nums : \E p, q \in RowUnit(i) :
        p # q /\ IsGiven(bd, p) /\ IsGiven(bd, q) /\ ValueAt(bd, p) = ValueAt(bd, q)

\* Every row, column and block of grid g holds each of 1..9 exactly once: a
\* unit has nine cells, so it does when the values it holds are all of 1..9.
ValidGrid(g) ==
    \A i \in 1..27 : { g[p[1]][p[2]] : p \in Unit(i) } = Nums

\* The grid of board bd with its unset cells filled by f.
Fill(bd, f) ==
    [i \in Nums |-> [j \in Nums |->
        IF <<i, j>> \in DOMAIN f THEN f[<<i, j>>] ELSE bd.cells[i][j].value]]

\* All the valid completions of board bd.
Completions(bd) ==
    { Fill(bd, f) : f \in { h \in [Holes(bd) -> Nums] : ValidGrid(Fill(bd, h)) } }

\* Row-major lexicographic order on grids.
CellAt(k) == << ((k - 1) \div 9) + 1, ((k - 1) % 9) + 1 >>
LexLess(g, h) ==
    \E k \in 1..81 :
        /\ g[CellAt(k)[1]][CellAt(k)[2]] < h[CellAt(k)[1]][CellAt(k)[2]]
        /\ \A m \in 1..(k - 1) :
               g[CellAt(m)[1]][CellAt(m)[2]] = h[CellAt(m)[1]][CellAt(m)[2]]

\* solve_board(b, 1, 1), main's call, has returned.
Returned == pc \in {"solve", "exit"} /\ stack = << >> /\ ret # -1
\* The search is running or has returned.
Searching == pc \in {"solve", "exit"} /\ (stack # << >> \/ ret # -1)

\* ------------------------------------------------------------------------
\* C1: when the givens are self-consistent and solve_board(b, 1, 1) returns
\* 1, all 81 cells are set and every row, column and block holds each of
\* 1..9 exactly once.
C1_SolvedBoardValid ==
    (Returned /\ ret = 1 /\ Consistent(b0)) =>
        /\ \A p \in Cells : IsGiven(b, p)
        /\ ValidGrid(GridValues(b))

C1_Witness ==
    Returned /\ ret = 1 /\ Consistent(b0) /\ Cardinality(touched) >= 4

\* C2: when solve_board(b, 1, 1) returns 0, the whole board (cells,
\* candidate arrays, unset_cells) is what it was when the search started.
C2_FailureRestoresBoard ==
    (Returned /\ ret = 0) => b = b0

C2_Witness ==
    Returned /\ ret = 0 /\ Cardinality(touched) >= 2 /\ b0.unset_cells >= 3

\* C3: while the search runs and after it has returned, every cell the
\* loader set still holds the value it was loaded with, and the search has
\* called set_cell and unset_cell only on cells that were unset at its start.
C3_GivensUntouched ==
    Searching =>
        \A p \in Cells : IsGiven(b0, p) =>
            /\ b.cells[p[1]][p[2]] = b0.cells[p[1]][p[2]]
            /\ p \notin touched

C3_Witness ==
    /\ Returned /\ file = "example" /\ Cardinality(touched) >= 40
    /\ \E p \in Cells : IsGiven(b0, p)

\* C4: when the givens are self-consistent, solve_board(b, 1, 1) returns 0
\* only if no filling of the unset cells is a valid grid.
C4_SearchComplete ==
    (Returned /\ ret = 0 /\ Consistent(b0)) => Completions(b0) = {}

C4_Witness ==
    Returned /\ ret = 0 /\ Consistent(b0) /\ touched # {}

\* C5: with a value given twice in a row, either loading stops with an error
\* before the search, or the search returns failure; it never returns 1.
C5_DuplicateRowRejected ==
    (Returned /\ RowDuplicate(b0)) => ret = 0

\* C6: when the givens are self-consistent and solve_board(b, 1, 1) returns
\* 1, the board holds the lexicographically smallest (row-major) valid
\* completion of the givens.
C6_FirstInLexOrder ==
    (Returned /\ ret = 1 /\ Consistent(b0)) =>
        LET all == Completions(b0)
        IN  /\ GridValues(b) \in all
            /\ \A g \in all : ~LexLess(g, GridValues(b))

C6_Witness ==
    Returned /\ ret = 1 /\ Consistent(b0) /\ Cardinality(Completions(b0)) >= 2

\* C7: on the empty grid solve_board(b, 1, 1) returns 1 and row 1 of the
\* board reads 1 2 3 4 5 6 7 8 9.
C7_EmptyGridFirstRow ==
    (Returned /\ b0.unset_cells = 81) =>
        /\ ret = 1
        /\ \A j \in Nums : b.cells[1][j] = [has_value |-> 1, value |-> j]

C7_Witness ==
    Returned /\ b0 = init_board /\ b.unset_cells = 0

\* C8: for atleast in 1..10, find_common_free returns the smallest value
\* from atleast to 9 that is unused in all three arrays, and -1 exactly when
\* there is none (always for atleast = 10); it leaves the arrays as they were.
C8_FindCommonFree ==
    fcf.called =>
        LET free == { v \in fcf.atleast..MAX_NUM :
                        /\ fcf.given[1][v] = 0
                        /\ fcf.given[2][v] = 0
                        /\ fcf.given[3][v] = 0 }
        IN  /\ free = {} => fcf.result = -1
            /\ free # {} => (fcf.result \in free /\ \A v \in free : fcf.result <= v)
            /\ fcf.atleast = 10 => fcf.result = -1
            /\ <<fcf.r, fcf.c, fcf.s>> = fcf.given

C8_Witness ==
    /\ fcf.called /\ fcf.atleast = 7 /\ fcf.result = 9
    /\ fcf.r[7] = 1 /\ fcf.c[7] = 0 /\ fcf.s[8] = 1 /\ fcf.r[8] = 0

\* C10: next_cell returns 1 and moves to (r, c+1), or to (r+1, 1) from
\* column 9, for every cell but (9,9), where it returns 0 and moves nowhere;
\* called again and again from (1,1) it visits the 81 cells once each, in
\* row-major order, and then returns 0.
C10_NextCellRowMajor ==
    nc.calls > 0 =>
        /\ IF nc.from = <<9, 9>>
           THEN nc.ret = 0 /\ <<nc.r, nc.c>> = nc.from
           ELSE /\ nc.ret = 1
                /\ <<nc.r, nc.c>> = IF nc.from[2] < 9
                                    THEN <<nc.from[1], nc.from[2] + 1>>
                                    ELSE <<nc.from[1] + 1, 1>>
        /\ nc.path[1] = <<1, 1>> =>
               /\ \A k \in 1..Len(nc.path) : nc.path[k] = CellAt(k)
               /\ nc.ret = 0 => Len(nc.path) = 81

C10_Witness ==
    /\ nc.calls = 81 /\ nc.ret = 0 /\ nc.path[1] = <<1, 1>>
    /\ { nc.path[k] : k \in 1..Len(nc.path) } = Cells

\* ------------------------------------------------------------------------
\* The candidate array the board keeps for unit i (rows, columns, squares).
MarksOf(bd, i) ==
    IF i <= 9 THEN bd.rows[i]
    ELSE IF i <= 18 THEN bd.columns[i - 9]
    ELSE bd.squares[i - 18]

\* The set cells of unit i and the values they hold.
SetIn(bd, i) == { p \in Unit(i) : IsGiven(bd, p) }
HeldIn(bd, i) == { ValueAt(bd, p) : p \in SetIn(bd, i) }

\* The values marked as used in the candidate array of unit i.
MarkedIn(bd, i) == { v \in Nums : MarksOf(bd, i)[v] = 1 }

\* No two set cells of a row, column or block hold the same value.
Distinct(bd) ==
    \A i \in 1..27 :
        LET s == SetIn(bd, i)
        IN  Cardinality({ ValueAt(bd, p) : p \in s }) = Cardinality(s)

\* The values marked for unit i are the values its set cells hold, and its
\* set cells hold different values.
UnitExact(bd, i) ==
    LET s == SetIn(bd, i)
        h == { ValueAt(bd, p) : p \in s }
    IN  MarkedIn(bd, i) = h /\ Cardinality(h) = Cardinality(s)

\* The givens of the run: the cells loaded so far while read_board runs,
\* the cells of the board the search started from afterwards.
GivensConsistent == IF Searching THEN Distinct(b0) ELSE Distinct(b)

\* C11: with self-consistent givens, between set_cell / unset_cell steps of
\* loading and search, a value is marked in the candidate array of a row,
\* column or block exactly when a cell of it holds the value, and no two set
\* cells of a row, column or block hold the same value.
C11_GridInvariant ==
    (\A i \in 1..27 : UnitExact(b, i)) \/ ~GivensConsistent

C11_Witness ==
    /\ Searching /\ Distinct(b0) /\ stack # << >>
    /\ Top.pc = "loop" /\ Top.prev > MIN_NUM /\ Len(stack) >= 3

\* C12: for any input text, contradictory givens included, between set_cell
\* / unset_cell steps of read_board and solve_board the counter unset_cells
\* is the number of cells whose has_value flag is 0, and so lies in 0..81.
C12_CounterInvariant ==
    /\ b.unset_cells = Cardinality(Holes(b))
    /\ b.unset_cells \in 0..(TOTAL_NUMS * TOTAL_NUMS)

C12_Witness ==
    /\ Searching /\ ~Distinct(b0) /\ stack # << >>
    /\ Top.pc = "loop" /\ Top.prev > MIN_NUM /\ b.unset_cells >= 2

\* Cell p comes before cell q in row-major order.
Before(p, q) == p[1] < q[1] \/ (p[1] = q[1] /\ p[2] < q[2])

\* An invocation of solve_board is at its first statement.
AtEntry == pc = "solve" /\ stack # << >> /\ Top.pc = "entry"

\* C13: an invocation of solve_board that finds unset_cells > 0 has every
\* cell before its start position set and an unset cell at or after it, and
\* its skip-forward loop ends on an unset cell, so that the branch
\* `if (is_set(b, r, c)) return 1;` is not taken.
C13_FallbackUnreachable ==
    (AtEntry /\ b.unset_cells > 0) =>
        LET start == <<Top.r, Top.c>>
            p == find_unset(b, Top.r, Top.c)
        IN  /\ is_set(b, p.r, p.c) = 0
            /\ \A q \in Cells : Before(q, start) => IsGiven(b, q)
            /\ \E q \in Cells : ~Before(q, start) /\ ~IsGiven(b, q)

C13_Witness ==
    /\ AtEntry /\ b.unset_cells > 0 /\ Len(stack) >= 3
    /\ is_set(b, Top.r, Top.c) # 0
    /\ LET p == find_unset(b, Top.r, Top.c)
       IN  ~Before(<<p.r, p.c>>, <<MAX_NUM, MAX_NUM - 1>>) /\ is_set(b, p.r, p.c) = 0

\* solve_board is about to call find_common_free and, unless it returns -1,
\* set_cell (line 293); or its recursive call has returned 0 and it is about
\* to call unset_cell (line 296).
AtSetCell == pc = "solve" /\ stack # << >> /\ Top.pc = "loop"
AtUnsetCell == pc = "solve" /\ stack # << >> /\ Top.pc = "call" /\ ret = 0

\* The value solve_board passes to set_cell, -1 when it calls none.
NextVal ==
    find_common_free(row_candidates(b, Top.r, Top.c), col_candidates(b, Top.r, Top.c),
                     square_candidates(b, Top.r, Top.c), Top.prev)

\* C14: every set_cell(b, r, c, val) of solve_board targets an unset cell
\* with val in 1..9 unmarked in the cell's row, column and block arrays;
\* every unset_cell(b, r, c, val) of solve_board targets a cell that holds
\* val with val marked in all three; so no assert_ of the two fails during
\* the search.
C14_SearchPreconditions ==
    /\ (AtSetCell /\ NextVal # -1) =>
           /\ is_set(b, Top.r, Top.c) = 0
           /\ NextVal \in Nums
           /\ b.rows[Top.r][NextVal] = 0
           /\ b.columns[Top.c][NextVal] = 0
           /\ b.squares[square(Top.r, Top.c)][NextVal] = 0
           /\ set_cell_assert(b, Top.r, Top.c, NextVal)
    /\ AtUnsetCell =>
           /\ is_set(b, Top.r, Top.c) = 1
           /\ b.cells[Top.r][Top.c].value = Top.val
           /\ b.rows[Top.r][Top.val] = 1
           /\ b.columns[Top.c][Top.val] = 1
           /\ b.squares[square(Top.r, Top.c)][Top.val] = 1
           /\ unset_cell_assert(b, Top.r, Top.c, Top.val)
    /\ pc = "abort" => stack = << >>

C14_Witness ==
    /\ AtUnsetCell /\ ~Distinct(b0) /\ Len(stack) >= 2
    /\ Top.val > MIN_NUM

\* The number of solve_board invocations active on the call stack.
Depth == Len(stack)

\* C15 as stated: the recursion depth never exceeds 81, the number of cells.
C15_DepthAtMost81 == Depth <= TOTAL_NUMS * TOTAL_NUMS

\* C15, amended: the recursion depth is at most one more than the number of
\* cells the search holds set (the innermost invocation has set none yet,
\* and on a full board it is the base case), so it never exceeds 81 + 1.
C15_DepthAtMost82 ==
    /\ Depth <= (b0.unset_cells - b.unset_cells) + 1
    /\ Depth <= TOTAL_NUMS * TOTAL_NUMS + 1

C15_Witness == Depth = TOTAL_NUMS * TOTAL_NUMS + 1 /\ file = "empty"

\* The frame of the innermost invocation before a step, as it is after it.
SameFrame == stack'[Len(stack)]

\* One pass of the loop of solve_board: the value tried is at least prev
\* (SolveTry), and the pass ends with prev above the value tried and so
\* above its old value (SolveBack).
PrevIncreases ==
    /\ (AtSetCell /\ Len(stack') = Len(stack) + 1) =>
           /\ SameFrame.val >= Top.prev
           /\ SameFrame.prev = Top.prev
           /\ <<SameFrame.r, SameFrame.c>> = <<Top.r, Top.c>>
    /\ (AtUnsetCell /\ Len(stack') = Len(stack)) =>
           /\ SameFrame.prev > Top.val
           /\ SameFrame.prev > Top.prev
           /\ <<SameFrame.r, SameFrame.c>> = <<Top.r, Top.c>>

\* How far an invocation has got: 0 at its entry, 2 * prev - 1 when it is
\* about to look for a value from prev on, 2 * val while it waits for the
\* recursive call made after set_cell(b, r, c, val), and 2 * (MAX_NUM + 1)
\* when it has returned and is no longer on the stack.
Code(f) ==
    IF f.pc = "entry" THEN 0
    ELSE IF f.pc = "loop" THEN 2 * f.prev - 1
    ELSE 2 * f.val

CodeAt(st, k) == IF k <= Len(st) THEN Code(st[k]) ELSE 2 * (MAX_NUM + 1)

\* The codes of the stack after the step, read from the outermost
\* invocation, come later in lexicographic order than those before it. They
\* are sequences of TOTAL_NUMS * TOTAL_NUMS + 1 numbers of
\* 0..2 * (MAX_NUM + 1), so no run has infinitely many such steps.
RankIncreases ==
    \E k \in 1..(TOTAL_NUMS * TOTAL_NUMS + 1) :
        /\ CodeAt(stack', k) > CodeAt(stack, k)
        /\ \A j \in 1..(k - 1) : CodeAt(stack', j) = CodeAt(stack, j)

\* solve_board(b, 1, 1) has been called and has not returned.
InSearch == pc = "solve" /\ stack # << >>

\* An unfinished search has a next statement to execute: the innermost
\* invocation is at its entry, in its loop, or has its recursive call back
\* with 0 or 1, and every other invocation waits for its recursive call.
SearchCanStep ==
    InSearch =>
        /\ Top.pc \in {"entry", "loop"} \/ (Top.pc = "call" /\ ret \in {0, 1})
        /\ Top.pc \in {"entry", "loop"} => ret = -1
        /\ \A k \in 1..(Len(stack) - 1) : stack[k].pc = "call"

\* C16: for every loaded board, consistent or not, the search terminates:
\* an unfinished search always has a next step, every step of it moves the
\* stack forward in a finite order, and what solve_board(b, 1, 1) returns is
\* 0 or 1; within one invocation prev strictly increases on every loop pass,
\* the values tried for the cell increasing with it.
C16_SearchTerminates ==
    /\ [](SearchCanStep /\ (Returned => ret \in {0, 1}))
    /\ [][InSearch => (RankIncreases /\ PrevIncreases /\ pc' = "solve")]_vars

C16_Witness ==
    /\ Returned /\ ret = 0 /\ ~Distinct(b0) /\ Cardinality(touched) >= 2

\* C17: print_board is executed exactly once if solve_board(b, 1, 1) returns
\* 1 and never if it returns 0; when it is executed unset_cells = 0 and all
\* 81 cells are set, and from then on the board stays the grid printed (no
\* set_cell or unset_cell follows); main returns 0 exactly when solve_board
\* returned 1 and 3 when it returned 0.
C17_PrintedOnceOnSuccess ==
    /\ Len(out) <= 1
    /\ Returned => /\ ret \in {0, 1}
                   /\ (ret = 1) <=> (Len(out) = 1)
                   /\ (ret = 0) <=> (out = << >>)
    /\ out # << >> => /\ b.unset_cells = 0
                      /\ \A p \in Cells : IsGiven(b, p)
                      /\ out[1] = GridValues(b)
                      /\ stack # << >> => (ret = 1 /\ Top.pc = "call")
    /\ pc = "exit" => /\ Returned
                      /\ (exit_code = 0) <=> (ret = 1)
                      /\ (exit_code = 3) <=> (ret = 0)
    /\ pc # "exit" => exit_code = -1

C17_Witness ==
    /\ pc = "exit" /\ exit_code = 0 /\ Len(out) = 1
    /\ Cardinality(touched) >= 2 * TOTAL_NUMS

====
